---- MODULE Spec2Model ----
(***************************************************************************)
(* A model of push_notifications/gcm.py: the GCM/FCM dispatch engine.      *)
(*                                                                         *)
(* Python values are modelled as follows.                                  *)
(*   - a dict is a function whose domain is a set of strings; the empty    *)
(*     dict is the function with the empty domain;                         *)
(*   - a string is a string, "" being the falsy one; d.get(k) of a missing *)
(*     key is None, which is falsy like "", so get(d, k) yields "";        *)
(*   - registration_ids, which is a list or None, is the record            *)
(*     [isNone, ids];                                                      *)
(*   - a raised exception is the outcome [kind |-> "raise", exc |-> name]. *)
(***************************************************************************)
EXTENDS Integers, Sequences, FiniteSets, TLC

VARIABLES
    registry,   \* the GCMDevice table: device row -> [registration_id, cloud_message_type, active]
    settings,   \* PUSH_NOTIFICATIONS_SETTINGS
    pc,         \* position of the caller: "idle", "sending" (between two requests), "done"
    call,       \* the arguments of the running call, and how its result is shaped
    data,       \* the caller's data dict (passed by reference to every request)
    pending,    \* the recipient lists still to be sent, in order
    network,    \* the requests handed to urlopen so far, each with its reply, in order
    ret,        \* the reconciled responses collected so far
    outcome,    \* how the call ended: nothing yet, a return value or a raised exception
    queries,    \* the ORM queries issued so far, in order
    last,       \* the latest reconciliation: its arguments and the table before it
    workers     \* the reconciliations running concurrently: each one's position and locals

vars ==
    <<registry, settings, pc, call, data, pending, network, ret, outcome, queries, last, workers>>

(***************************************************************************)
(* Bounds of the model.                                                    *)
(***************************************************************************)
NumDevices == 2       \* rows of the GCMDevice table
MaxIds == 3           \* longest recipient list of a bulk call
MaxCap == 2           \* largest configured *_MAX_RECIPIENTS
MaxResults == 2       \* longest results array handed to a stand-alone reconciliation

IDs == {"A", "B", "C"}
CloudTypes == {"GCM", "FCM"}
Devices == 1..NumDevices
Device == [registration_id : IDs, cloud_message_type : CloudTypes, active : BOOLEAN]

(***************************************************************************)
(* Module constants, gcm.py lines 25-35.                                   *)
(***************************************************************************)
FCM_TARGETS_KEYS == <<"to", "condition", "notification_key">>

FCM_OPTIONS_KEYS ==
    <<"collapse_key", "priority", "content_available", "delay_while_idle",
      "time_to_live", "restricted_package_name", "dry_run">>

FCM_NOTIFICATIONS_PAYLOAD_KEYS ==
    <<"title", "body", "icon", "sound", "badge", "color", "tag", "click_action",
      "body_loc_key", "body_loc_args", "title_loc_key", "title_loc_args">>

(***************************************************************************)
(* Python helpers.                                                         *)
(***************************************************************************)
Range(s) == {s[i] : i \in DOMAIN s}

EmptyDict == [k \in {} |-> ""]

\* d.get(k): the value, or None (modelled as the falsy "")
get(d, k) == IF k \in DOMAIN d THEN d[k] ELSE ""

\* the dict left by d.pop(k, None)
pop(d, k) == [j \in (DOMAIN d) \ {k} |-> d[j]]

\* d[k] = v
put(d, k, v) == [j \in (DOMAIN d) \cup {k} |-> IF j = k THEN v ELSE d[j]]

\* truth value of a string (or None)
truthy(v) == v # ""

\* response.get(k) of a count: the number, or None (falsy like 0)
get_count(response, k) == IF k \in DOMAIN response THEN response[k] ELSE 0

NoneIds == [isNone |-> TRUE, ids |-> <<>>]
ListIds(l) == [isNone |-> FALSE, ids |-> l]

\* truth value of registration_ids: None and [] are falsy
truthy_ids(registration_ids) == ~registration_ids.isNone /\ registration_ids.ids # <<>>

Min(a, b) == IF a < b THEN a ELSE b

\* a faulty slice that takes l[j] too; C1_Chunking must tell it from slice
slice_inclusive(l, i, j) == SubSeq(l, i + 1, Min(j + 1, Len(l)))

\* l[i:j], Python's 0-based half-open slice
slice(l, i, j) == SubSeq(l, i + 1, Min(j, Len(l)))

(***************************************************************************)
(* _chunks, lines 42-47: for i in range(0, len(l), n): yield l[i:i + n]    *)
(***************************************************************************)
RECURSIVE chunks_from(_, _, _)
chunks_from(l, n, i) ==
    IF i >= Len(l) THEN <<>>
    ELSE <<slice(l, i, i + n)>> \o chunks_from(l, n, i + n)

chunks(l, n) == chunks_from(l, n, 0)

(***************************************************************************)
(* The ORM queries on GCMDevice.  A database is the table together with    *)
(* the log of the queries issued on it.                                    *)
(***************************************************************************)
Query(op, ids, cloud_type, new_id) ==
    [op |-> op, ids |-> ids, cloud_type |-> cloud_type, new_id |-> new_id]

\* a faulty test that forgets active=True; C3_CanonicalMigration must tell it
\* from exists_active
exists_any(table, id, cloud_type) ==
    \E d \in DOMAIN table :
        /\ table[d].registration_id = id
        /\ table[d].cloud_message_type = cloud_type

\* a faulty test that forgets registration_id=id; C14_CommutesUnlessInterfering
\* must tell it from exists_active
exists_active_any_id(table, id, cloud_type) ==
    \E d \in DOMAIN table :
        /\ table[d].cloud_message_type = cloud_type
        /\ table[d].active

\* filter(registration_id=id, cloud_message_type=cloud_type, active=True).exists()
exists_active(table, id, cloud_type) ==
    \E d \in DOMAIN table :
        /\ table[d].registration_id = id
        /\ table[d].cloud_message_type = cloud_type
        /\ table[d].active

\* a faulty deactivation that forgets cloud_message_type=cloud_type;
\* C17_CloudTypeScoping must tell it from update_active
update_active_any_type(table, ids, cloud_type) ==
    [d \in DOMAIN table |->
        IF table[d].registration_id \in ids
        THEN [table[d] EXCEPT !.active = FALSE]
        ELSE table[d]]

\* filter(registration_id__in=ids, cloud_message_type=cloud_type).update(active=False)
update_active(table, ids, cloud_type) ==
    [d \in DOMAIN table |->
        IF table[d].registration_id \in ids /\ table[d].cloud_message_type = cloud_type
        THEN [table[d] EXCEPT !.active = FALSE]
        ELSE table[d]]

\* filter(registration_id=id, cloud_message_type=cloud_type).update(registration_id=new_id)
update_registration_id(table, id, cloud_type, new_id) ==
    [d \in DOMAIN table |->
        IF table[d].registration_id = id /\ table[d].cloud_message_type = cloud_type
        THEN [table[d] EXCEPT !.registration_id = new_id]
        ELSE table[d]]

(***************************************************************************)
(* _gcm_handle_canonical_id, lines 167-175.                                *)
(***************************************************************************)
\* a faulty migration that renames without looking for an active row of the
\* new ID; C12_OneActiveSequential must tell it from gcm_handle_canonical_id
gcm_handle_canonical_id_rename(db, canonical_id, current_id, cloud_type) ==
    [registry |-> update_registration_id(db.registry, current_id, cloud_type, canonical_id),
     queries |-> db.queries \o
                    <<Query("exists", <<canonical_id>>, cloud_type, ""),
                      Query("update_registration_id", <<current_id>>, cloud_type,
                            canonical_id)>>]

gcm_handle_canonical_id(db, canonical_id, current_id, cloud_type) ==
    LET asked == Append(db.queries, Query("exists", <<canonical_id>>, cloud_type, ""))
    IN  IF exists_active(db.registry, canonical_id, cloud_type)
        THEN [registry |-> update_active(db.registry, {current_id}, cloud_type),
              queries |-> Append(asked, Query("update_active", <<current_id>>, cloud_type, ""))]
        ELSE [registry |-> update_registration_id(db.registry, current_id, cloud_type, canonical_id),
              queries |-> Append(asked,
                                 Query("update_registration_id", <<current_id>>, cloud_type,
                                       canonical_id))]

(***************************************************************************)
(* _cm_handle_response, lines 82-119.                                      *)
(***************************************************************************)
DeactivationErrors == {"NotRegistered", "InvalidRegistration"}

\* the exception of registration_ids[index] (index counted from 1 here), or ""
subscript_error(registration_ids, index) ==
    IF registration_ids.isNone THEN "TypeError"
    ELSE IF index > Len(registration_ids.ids) THEN "IndexError"
    ELSE ""

\* a faulty pairing that counts the recipients from the end; C2_PositionalPairing
\* must tell it from recipient_at
recipient_reversed(registration_ids, index) ==
    registration_ids.ids[Len(registration_ids.ids) - index + 1]

\* lines 97 and 108: registration_ids[index], the recipient a result is about
recipient_at(registration_ids, index) == registration_ids.ids[index]

\* lines 96-99: what one result's error code asks for
classify_error(error) ==
    IF ~truthy(error) THEN "none"
    ELSE IF error \in DeactivationErrors THEN "remove"
    ELSE "throw"

\* the loop of lines 87-108 from position index on; acc holds ids_to_remove,
\* old_new_ids, throw_error, and exc, the exception that ended the loop early
RECURSIVE scan_results(_, _, _, _)
scan_results(results, registration_ids, index, acc) ==
    IF index > Len(results) \/ acc.exc # "" THEN acc
    ELSE
        LET result == results[index]
            kind == classify_error(get(result, "error"))
            new_id == get(result, "registration_id")
            failed == IF kind = "remove" \/ truthy(new_id)
                      THEN subscript_error(registration_ids, index)
                      ELSE ""
        IN  IF failed # "" THEN [acc EXCEPT !.exc = failed]
            ELSE scan_results(results, registration_ids, index + 1,
                    [ids_to_remove |->
                        IF kind = "remove"
                        THEN Append(acc.ids_to_remove, recipient_at(registration_ids, index))
                        ELSE acc.ids_to_remove,
                     old_new_ids |->
                        IF truthy(new_id)
                        THEN Append(acc.old_new_ids,
                                    <<recipient_at(registration_ids, index), new_id>>)
                        ELSE acc.old_new_ids,
                     throw_error |-> acc.throw_error \/ kind = "throw",
                     exc |-> ""])

\* lines 110-112: the bulk deactivation
remove_ids(db, ids_to_remove, cloud_type) ==
    IF ids_to_remove # <<>>
    THEN [registry |-> update_active(db.registry, Range(ids_to_remove), cloud_type),
          queries |-> Append(db.queries, Query("update_active_in", ids_to_remove, cloud_type, ""))]
    ELSE db

\* lines 114-115: the migrations, in the order met
RECURSIVE migrate_ids(_, _, _)
migrate_ids(db, old_new_ids, cloud_type) ==
    IF old_new_ids = <<>> THEN db
    ELSE migrate_ids(
            gcm_handle_canonical_id(db, Head(old_new_ids)[2], Head(old_new_ids)[1], cloud_type),
            Tail(old_new_ids), cloud_type)

Returned(response) == [kind |-> "return", exc |-> "", response |-> <<response>>]
Raised(exc, response) == [kind |-> "raise", exc |-> exc, response |-> response]

\* a faulty test that looks at the results instead of the counts;
\* C4_NoOpFastPath must tell it from needs_reconciliation
needs_reconciliation_results(response) ==
    "results" \in DOMAIN response /\ response.results # <<>>

\* line 84
needs_reconciliation(response) ==
    get_count(response, "failure") # 0 \/ get_count(response, "canonical_ids") # 0

\* a faulty reconciliation that raises GCMError before it touches the table;
\* C7_PartialFailure must tell it from cm_handle_response
cm_handle_response_raise_first(db, registration_ids, response, cloud_type) ==
    IF needs_reconciliation(response)
    THEN
        LET scan == scan_results(response.results, registration_ids, 1,
                        [ids_to_remove |-> <<>>, old_new_ids |-> <<>>,
                         throw_error |-> FALSE, exc |-> ""])
        IN  IF scan.exc # ""
            THEN [registry |-> db.registry, queries |-> db.queries,
                  outcome |-> Raised(scan.exc, <<>>)]
            ELSE IF scan.throw_error
            THEN [registry |-> db.registry, queries |-> db.queries,
                  outcome |-> Raised("GCMError", <<response>>)]
            ELSE LET after == migrate_ids(remove_ids(db, scan.ids_to_remove, cloud_type),
                                          scan.old_new_ids, cloud_type)
                 IN  [registry |-> after.registry, queries |-> after.queries,
                      outcome |-> Returned(response)]
    ELSE [registry |-> db.registry, queries |-> db.queries, outcome |-> Returned(response)]

\* a faulty reconciliation that returns the response where it should raise
\* GCMError; C19_AbortOnFirstFailure must tell it from cm_handle_response
cm_handle_response_quiet(db, registration_ids, response, cloud_type) ==
    IF needs_reconciliation(response)
    THEN
        LET scan == scan_results(response.results, registration_ids, 1,
                        [ids_to_remove |-> <<>>, old_new_ids |-> <<>>,
                         throw_error |-> FALSE, exc |-> ""])
        IN  IF scan.exc # ""
            THEN [registry |-> db.registry, queries |-> db.queries,
                  outcome |-> Raised(scan.exc, <<>>)]
            ELSE LET after == migrate_ids(remove_ids(db, scan.ids_to_remove, cloud_type),
                                          scan.old_new_ids, cloud_type)
                 IN  [registry |-> after.registry, queries |-> after.queries,
                      outcome |-> Returned(response)]
    ELSE [registry |-> db.registry, queries |-> db.queries, outcome |-> Returned(response)]

\* the database after the call, and the call's outcome
cm_handle_response(db, registration_ids, response, cloud_type) ==
    IF needs_reconciliation(response)
    THEN
        LET scan == scan_results(response.results, registration_ids, 1,
                        [ids_to_remove |-> <<>>, old_new_ids |-> <<>>,
                         throw_error |-> FALSE, exc |-> ""])
        IN  IF scan.exc # ""
            THEN [registry |-> db.registry, queries |-> db.queries,
                  outcome |-> Raised(scan.exc, <<>>)]
            ELSE LET after == migrate_ids(remove_ids(db, scan.ids_to_remove, cloud_type),
                                          scan.old_new_ids, cloud_type)
                 IN  [registry |-> after.registry, queries |-> after.queries,
                      outcome |-> IF scan.throw_error
                                  THEN Raised("GCMError", <<response>>)
                                  ELSE Returned(response)]
    ELSE [registry |-> db.registry, queries |-> db.queries, outcome |-> Returned(response)]

(***************************************************************************)
(* _gcm_send and _fcm_send, lines 50-79.  reply is what the network does   *)
(* with the request: it fails (urlopen or json.loads raises) or it answers *)
(* with a response body.                                                   *)
(***************************************************************************)
TransportFailure == [ok |-> FALSE, body |-> <<>>]
Reply(response) == [ok |-> TRUE, body |-> <<response>>]

Request(url, key, payload) == [url |-> url, key |-> key, payload |-> payload]

\* lines 57-63, shared by both senders: the request goes out, then urlopen answers
urlopen(request, reply) ==
    IF reply.ok
    THEN [exc |-> "", sent |-> <<request>>, body |-> reply.body]
    ELSE [exc |-> "URLError", sent |-> <<request>>, body |-> <<>>]

\* a faulty sender that does not look at the key; C9_MissingCredential must
\* tell it from gcm_send
gcm_send_unchecked(cfg, json_payload, reply) ==
    urlopen(Request("GCM_POST_URL", cfg.GCM_API_KEY, json_payload), reply)

gcm_send(cfg, json_payload, reply) ==
    IF ~truthy(cfg.GCM_API_KEY)
    THEN [exc |-> "ImproperlyConfigured", sent |-> <<>>, body |-> <<>>]
    ELSE urlopen(Request("GCM_POST_URL", cfg.GCM_API_KEY, json_payload), reply)

fcm_send(cfg, json_payload, reply) ==
    IF ~truthy(cfg.FCM_API_KEY)
    THEN [exc |-> "ImproperlyConfigured", sent |-> <<>>, body |-> <<>>]
    ELSE urlopen(Request("FCM_POST_URL", cfg.FCM_API_KEY, json_payload), reply)

(***************************************************************************)
(* _cm_send_request, lines 122-164.                                        *)
(***************************************************************************)
\* a faulty overlay in which the value from data wins; C6_OptionsPrecedence
\* must tell it from overlay_key
overlay_key_data_first(notification_payload, key, value_from_extra, value_from_kwargs) ==
    IF truthy(value_from_extra) THEN put(notification_payload, key, value_from_extra)
    ELSE IF truthy(value_from_kwargs) THEN put(notification_payload, key, value_from_kwargs)
    ELSE notification_payload

\* lines 139-144: one key of FCM_NOTIFICATIONS_PAYLOAD_KEYS
overlay_key(notification_payload, key, value_from_extra, value_from_kwargs) ==
    LET from_extra == IF truthy(value_from_extra)
                      THEN put(notification_payload, key, value_from_extra)
                      ELSE notification_payload
    IN  IF truthy(value_from_kwargs)
        THEN put(from_extra, key, value_from_kwargs)
        ELSE from_extra

\* the loop of lines 138-144 over keys; st holds data, kwargs and notification_payload
RECURSIVE pop_notification_keys(_, _)
pop_notification_keys(keys, st) ==
    IF keys = <<>> THEN st
    ELSE LET key == Head(keys)
         IN  pop_notification_keys(Tail(keys),
                [data |-> pop(st.data, key),
                 kwargs |-> pop(st.kwargs, key),
                 notification_payload |->
                    overlay_key(st.notification_payload, key,
                                get(st.data, key), get(st.kwargs, key))])

\* lines 133-144: data, kwargs and notification_payload after the extraction
extract_notification(d, cloud_type, use_fcm_notifications, kwargs) ==
    IF cloud_type = "FCM" /\ use_fcm_notifications
    THEN pop_notification_keys(FCM_NOTIFICATIONS_PAYLOAD_KEYS,
            [data |-> pop(d, "message"),
             kwargs |-> kwargs,
             notification_payload |->
                IF "message" \in DOMAIN d THEN [body |-> d["message"]] ELSE EmptyDict])
    ELSE [data |-> d, kwargs |-> kwargs, notification_payload |-> EmptyDict]

\* line 153: the keyword arguments that go into the payload
extra_keys(kwargs) ==
    {k \in DOMAIN kwargs :
        truthy(kwargs[k]) /\ (k \in Range(FCM_TARGETS_KEYS) \/ k \in Range(FCM_OPTIONS_KEYS))}

\* lines 129-153: the payload, and the caller's data dict as the pops leave it
build_payload(registration_ids, d, cloud_type, use_fcm_notifications, kwargs) ==
    LET addressed == IF truthy_ids(registration_ids)
                     THEN [registration_ids |-> registration_ids.ids]
                     ELSE EmptyDict
        ex == extract_notification(d, cloud_type, use_fcm_notifications, kwargs)
        notified == IF DOMAIN ex.notification_payload # {}
                    THEN put(addressed, "notification", ex.notification_payload)
                    ELSE addressed
        loaded == IF DOMAIN ex.data # {} THEN put(notified, "data", ex.data) ELSE notified
        extra == extra_keys(ex.kwargs)
    IN  [payload |-> [k \in (DOMAIN loaded) \cup extra |->
                        IF k \in extra THEN ex.kwargs[k] ELSE loaded[k]],
         data |-> ex.data]

\* lines 158-163: the sender of the cloud type
send_payload(cfg, json_payload, cloud_type, reply) ==
    IF cloud_type = "GCM" THEN gcm_send(cfg, json_payload, reply)
    ELSE IF cloud_type = "FCM" THEN fcm_send(cfg, json_payload, reply)
    ELSE [exc |-> "ImproperlyConfigured", sent |-> <<>>, body |-> <<>>]

\* a faulty request that takes a transport failure for a verdict on the
\* recipients and deactivates them; C16_TransportFailureIsolation must tell it
\* from cm_send_request
cm_send_request_unreachable(db, cfg, registration_ids, d, cloud_type, use_fcm_notifications, kwargs, reply) ==
    LET built == build_payload(registration_ids, d, cloud_type, use_fcm_notifications, kwargs)
        answer == send_payload(cfg, built.payload, cloud_type, reply)
        handled == cm_handle_response(db, registration_ids, answer.body[1], cloud_type)
    IN  IF answer.exc # ""
        THEN [registry |-> update_active(db.registry, Range(registration_ids.ids), cloud_type),
              queries |-> db.queries, data |-> built.data,
              sent |-> answer.sent, reconciled |-> FALSE, body |-> <<>>,
              outcome |-> Raised(answer.exc, <<>>)]
        ELSE [registry |-> handled.registry, queries |-> handled.queries, data |-> built.data,
              sent |-> answer.sent, reconciled |-> TRUE, body |-> answer.body,
              outcome |-> handled.outcome]

\* the whole request: the database and the data dict after it, what went out
\* on the network, whether the response was reconciled, and the outcome
cm_send_request(db, cfg, registration_ids, d, cloud_type, use_fcm_notifications, kwargs, reply) ==
    LET built == build_payload(registration_ids, d, cloud_type, use_fcm_notifications, kwargs)
        answer == send_payload(cfg, built.payload, cloud_type, reply)
        handled == cm_handle_response(db, registration_ids, answer.body[1], cloud_type)
    IN  IF answer.exc # ""
        THEN [registry |-> db.registry, queries |-> db.queries, data |-> built.data,
              sent |-> answer.sent, reconciled |-> FALSE, body |-> <<>>,
              outcome |-> Raised(answer.exc, <<>>)]
        ELSE [registry |-> handled.registry, queries |-> handled.queries, data |-> built.data,
              sent |-> answer.sent, reconciled |-> TRUE, body |-> answer.body,
              outcome |-> handled.outcome]

(***************************************************************************)
(* send_bulk_message, lines 193-220, up to its first request: the          *)
(* exception it raises, or whether it returns None, or the recipient lists *)
(* it is going to send and the shape of its result.                        *)
(***************************************************************************)
\* the modelled values of the "to" option that contain "/topics/"
TopicTargets == {"/topics/news"}

\* "/topics/" in to
contains_topics(to) == to \in TopicTargets

max_recipients(cfg, cloud_type) ==
    IF cloud_type = "GCM" THEN cfg.GCM_MAX_RECIPIENTS ELSE cfg.FCM_MAX_RECIPIENTS

\* lines 213-216: the requests of the chunked branch
chunk_requests(registration_ids, n) ==
    LET cs == chunks(registration_ids.ids, n)
    IN  [i \in DOMAIN cs |-> ListIds(cs[i])]

\* a faulty entry that lacks the test of line 209; C5_NullAddressingKeyed must
\* tell it from send_bulk_message
send_bulk_message_unguarded(cfg, registration_ids, cloud_type, kwargs) ==
    IF cloud_type \notin {"GCM", "FCM"}
    THEN [exc |-> "ImproperlyConfigured", returns |-> FALSE, pending |-> <<>>, shape |-> "none"]
    ELSE IF truthy_ids(registration_ids)
            /\ Len(registration_ids.ids) > max_recipients(cfg, cloud_type)
    THEN [exc |-> "", returns |-> FALSE,
          pending |-> chunk_requests(registration_ids, max_recipients(cfg, cloud_type)),
          shape |-> "list"]
    ELSE [exc |-> "", returns |-> FALSE, pending |-> <<registration_ids>>, shape |-> "single"]

send_bulk_message(cfg, registration_ids, cloud_type, kwargs) ==
    IF cloud_type \notin {"GCM", "FCM"}
    THEN [exc |-> "ImproperlyConfigured", returns |-> FALSE, pending |-> <<>>, shape |-> "none"]
    ELSE IF registration_ids.isNone /\ ~contains_topics(get(kwargs, "to"))
    THEN [exc |-> "", returns |-> TRUE, pending |-> <<>>, shape |-> "none"]
    ELSE IF truthy_ids(registration_ids)
            /\ Len(registration_ids.ids) > max_recipients(cfg, cloud_type)
    THEN [exc |-> "", returns |-> FALSE,
          pending |-> chunk_requests(registration_ids, max_recipients(cfg, cloud_type)),
          shape |-> "list"]
    ELSE [exc |-> "", returns |-> FALSE, pending |-> <<registration_ids>>, shape |-> "single"]

(***************************************************************************)
(* send_message, lines 178-190, up to its request.                         *)
(***************************************************************************)
send_message(registration_id) ==
    IF truthy(registration_id)
    THEN [exc |-> "", returns |-> FALSE, pending |-> <<ListIds(<<registration_id>>)>>,
          shape |-> "single"]
    ELSE [exc |-> "", returns |-> TRUE, pending |-> <<>>, shape |-> "none"]

(***************************************************************************)
(* The gateway.  Each result reports a delivery, an error or a canonical   *)
(* ID.                                                                     *)
(***************************************************************************)
Delivered == [message_id |-> "m"]
Failed(error) == [error |-> error]
Canonical(new_id) == [message_id |-> "m", registration_id |-> new_id]
FailedCanonical(error, new_id) == [error |-> error, registration_id |-> new_id]

count_with(results, key) == Cardinality({i \in DOMAIN results : key \in DOMAIN results[i]})

\* a response whose counts are those of its results
Response(results) ==
    [failure |-> count_with(results, "error"),
     canonical_ids |-> count_with(results, "registration_id"),
     results |-> results]

\* the answer to a topic message carries no counts and no results
TopicResponse == [message_id |-> "m"]

(***************************************************************************)
(* The inputs of the model.                                                *)
(***************************************************************************)
SeqsUpTo(S, n) == UNION {[1..k -> S] : k \in 0..n}

\* the device tokens callers address
Recipients == {"A", "B"}

BulkRecipients == {NoneIds} \cup {ListIds(l) : l \in SeqsUpTo(Recipients, MaxIds)}

CallCloudTypes == CloudTypes \cup {"APNS"}

DataChoices == {EmptyDict, [message |-> "hi", title |-> "T", extra |-> "x"]}

KwargsChoices == {EmptyDict, [to |-> "/topics/news"], [to |-> "A"], [title |-> "K"]}

\* the settings: a credential may be missing, the caps are at least 1
Settings ==
    {cfg \in [GCM_API_KEY : {"", "gcm-key"}, FCM_API_KEY : {"", "fcm-key"},
              GCM_MAX_RECIPIENTS : 1..MaxCap, FCM_MAX_RECIPIENTS : 1..MaxCap] :
        cfg.GCM_MAX_RECIPIENTS = cfg.FCM_MAX_RECIPIENTS}

\* the registration ID of row d when the model starts
InitialId(d) == IF d % 3 = 1 THEN "A" ELSE IF d % 3 = 2 THEN "B" ELSE "C"

\* active rows with distinct IDs, their cloud types alternating
InitialTables ==
    {t \in [Devices -> Device] :
        /\ \A d \in Devices : t[d].registration_id = InitialId(d) /\ t[d].active
        /\ \A d \in Devices \ {1} : t[d].cloud_message_type # t[d - 1].cloud_message_type}

GatewayResults ==
    {Delivered, Failed("NotRegistered"), Failed("Unavailable"), Canonical("C")}

\* what may come back for a payload: the transport fails (as it does for a
\* payload the gateway rejects, one without a target among them), or the
\* gateway answers with one result per recipient of the list, with the one
\* result of the device the "to" option names, or with a topic answer
Replies(results, payload) ==
    {TransportFailure} \cup
    IF "registration_ids" \in DOMAIN payload
    THEN {Reply(Response(rs)) : rs \in [1..Len(payload.registration_ids) -> results]}
    ELSE IF "to" \in DOMAIN payload /\ ~contains_topics(payload.to)
    THEN {Reply(Response(<<r>>)) : r \in results}
    ELSE IF (DOMAIN payload) \cap Range(FCM_TARGETS_KEYS) # {}
    THEN {Reply(TopicResponse)}
    ELSE {}

(***************************************************************************)
(* The state machine of one call.                                          *)
(***************************************************************************)
NoCall ==
    [fn |-> "", registration_ids |-> NoneIds, data |-> EmptyDict, cloud_type |-> "",
     use_fcm_notifications |-> TRUE, kwargs |-> EmptyDict, shape |-> "none"]

NoOutcome == [kind |-> "none", exc |-> "", shape |-> "none", value |-> <<>>]

NoLast(table) ==
    [reconciled |-> FALSE, registration_ids |-> NoneIds, cloud_type |-> "",
     response |-> <<>>, before |-> table, origin |-> table, asked |-> 0,
     outcome |-> [kind |-> "none", exc |-> "", response |-> <<>>]]

\* no reconciliation runs concurrently
NoWorkers == [w \in {} |-> ""]

Idle(tables, cfgs) ==
    /\ registry \in tables
    /\ settings \in cfgs
    /\ call = NoCall
    /\ data = EmptyDict
    /\ pending = <<>>
    /\ network = <<>>
    /\ ret = <<>>
    /\ outcome = NoOutcome
    /\ queries = <<>>
    /\ last = NoLast(registry)
    /\ workers = NoWorkers

Init == pc = "idle" /\ Idle(InitialTables, Settings)

\* a call starts: it ends at once or goes on to its first request
Start(fn, plan, registration_ids, d, cloud_type, use_fcm_notifications, kwargs) ==
    /\ call' = [fn |-> fn, registration_ids |-> registration_ids, data |-> d,
                cloud_type |-> cloud_type, use_fcm_notifications |-> use_fcm_notifications,
                kwargs |-> kwargs, shape |-> plan.shape]
    /\ data' = d
    /\ pending' = plan.pending
    /\ pc' = IF plan.exc # "" \/ plan.returns THEN "done" ELSE "sending"
    /\ outcome' = IF plan.exc # ""
                  THEN [kind |-> "raise", exc |-> plan.exc, shape |-> "none", value |-> <<>>]
                  ELSE IF plan.returns
                  THEN [kind |-> "return", exc |-> "", shape |-> "none", value |-> <<>>]
                  ELSE outcome
    /\ UNCHANGED <<registry, settings, network, ret, queries, last, workers>>

SendBulkMessageOn(recipients, datas, flags, kwargss) ==
    /\ pc = "idle"
    /\ \E registration_ids \in recipients, d \in datas, cloud_type \in CallCloudTypes,
          use_fcm_notifications \in flags, kwargs \in kwargss :
            Start("send_bulk_message",
                  send_bulk_message(settings, registration_ids, cloud_type, kwargs),
                  registration_ids, d, cloud_type, use_fcm_notifications, kwargs)

SendMessageOn(recipients, datas, flags, kwargss) ==
    /\ pc = "idle"
    /\ \E registration_id \in recipients, d \in datas, cloud_type \in CallCloudTypes,
          use_fcm_notifications \in flags, kwargs \in kwargss :
            Start("send_message", send_message(registration_id),
                  IF truthy(registration_id) THEN ListIds(<<registration_id>>) ELSE NoneIds,
                  d, cloud_type, use_fcm_notifications, kwargs)

\* the next request of the call: payload, transport, reconciliation, and the
\* return of the call when it was the last one
CmSendRequestOn(results) ==
    /\ pc = "sending"
    /\ \E reply \in Replies(results,
                            build_payload(Head(pending), data, call.cloud_type,
                                          call.use_fcm_notifications, call.kwargs).payload) :
       \E r \in {cm_send_request([registry |-> registry, queries |-> queries], settings,
                                 Head(pending), data, call.cloud_type,
                                 call.use_fcm_notifications, call.kwargs, reply)} :
            /\ registry' = r.registry
            /\ queries' = r.queries
            /\ data' = r.data
            /\ network' = network \o [i \in DOMAIN r.sent |->
                                        [request |-> r.sent[i], reply |-> reply]]
            /\ last' = [reconciled |-> r.reconciled, registration_ids |-> Head(pending),
                        cloud_type |-> call.cloud_type, response |-> r.body,
                        before |-> registry, origin |-> last.origin, asked |-> Len(queries),
                        outcome |-> r.outcome]
            /\ IF r.outcome.kind = "raise"
               THEN /\ pc' = "done"
                    /\ outcome' = [kind |-> "raise", exc |-> r.outcome.exc, shape |-> "none",
                                   value |-> r.outcome.response]
                    /\ UNCHANGED <<pending, ret>>
               ELSE /\ ret' = Append(ret, r.outcome.response[1])
                    /\ pending' = Tail(pending)
                    /\ pc' = IF Tail(pending) = <<>> THEN "done" ELSE "sending"
                    /\ outcome' = IF Tail(pending) = <<>>
                                  THEN [kind |-> "return", exc |-> "", shape |-> call.shape,
                                        value |-> Append(ret, r.outcome.response[1])]
                                  ELSE outcome
            /\ UNCHANGED <<settings, call, workers>>

SendBulkMessage == SendBulkMessageOn(BulkRecipients, DataChoices, BOOLEAN, KwargsChoices)

SendMessage == SendMessageOn(Recipients \cup {""}, DataChoices, BOOLEAN, KwargsChoices)

CmSendRequest == CmSendRequestOn(GatewayResults)

Next == SendBulkMessage \/ SendMessage \/ CmSendRequest

Spec == Init /\ [][Next]_vars

(***************************************************************************)
(* Payloads: single sends over every combination of the display fields in  *)
(* data and in the keyword arguments.                                      *)
(***************************************************************************)
Dicts(keys, values) == UNION {[ks -> values] : ks \in SUBSET keys}

PayloadData == Dicts({"message", "title", "body", "extra"}, {"", "d"})

PayloadKwargs == Dicts({"title", "body", "to"}, {"", "k"})

PayloadSettings ==
    {[GCM_API_KEY |-> "gcm-key", FCM_API_KEY |-> "fcm-key",
      GCM_MAX_RECIPIENTS |-> MaxCap, FCM_MAX_RECIPIENTS |-> MaxCap]}

InitPayload == pc = "idle" /\ Idle(InitialTables, PayloadSettings)

SendMessagePayload == SendMessageOn({"A"}, PayloadData, BOOLEAN, PayloadKwargs)

CmSendRequestPayload == CmSendRequestOn({Delivered})

NextPayload == SendMessagePayload \/ CmSendRequestPayload

SpecPayload == InitPayload /\ [][NextPayload]_vars

(***************************************************************************)
(* Reconciliation on its own: _cm_handle_response applied to any recipient *)
(* list and any response, whose counts need not be those of its results.   *)
(***************************************************************************)
ReconcileTables ==
    {t \in [Devices -> Device] : \A d \in Devices : t[d].registration_id = InitialId(d)}

ReconcileResults ==
    {Delivered, Failed("NotRegistered"), Failed("InvalidRegistration"), Failed("Unavailable"),
     Canonical("B"), Canonical("C"), FailedCanonical("NotRegistered", "C")}

\* the counts a response may claim: none at all, or each 0 or 1 but not both 1
WithCounts(results) ==
    {[results |-> results],
     [failure |-> 0, canonical_ids |-> 0, results |-> results],
     [failure |-> 1, canonical_ids |-> 0, results |-> results],
     [failure |-> 0, canonical_ids |-> 1, results |-> results]}

\* one result per recipient; without recipients, no result or one
ReconcileInputs ==
    {[registration_ids |-> ListIds(l), results |-> rs] :
        <<l, rs>> \in UNION {[1..k -> Recipients] \X [1..k -> ReconcileResults] :
                                k \in 1..MaxResults}}
    \cup
    {[registration_ids |-> r, results |-> rs] :
        <<r, rs>> \in {NoneIds, ListIds(<<>>)} \X SeqsUpTo(ReconcileResults, 1)}

InitReconcile == pc = "reconcile" /\ Idle(ReconcileTables, PayloadSettings)

\* one call of _cm_handle_response, its arguments drawn from inputs and counts
CmHandleResponseOn(inputs, counts) ==
    /\ pc = "reconcile"
    /\ \E cloud_type \in CloudTypes, input \in inputs :
       \E response \in IF counts = "any" THEN WithCounts(input.results)
                        ELSE {Response(input.results)} :
       \E r \in {cm_handle_response([registry |-> registry, queries |-> queries],
                                    input.registration_ids, response, cloud_type)} :
            /\ registry' = r.registry
            /\ queries' = r.queries
            /\ last' = [reconciled |-> TRUE, registration_ids |-> input.registration_ids,
                        cloud_type |-> cloud_type, response |-> <<response>>,
                        before |-> registry, origin |-> last.origin, asked |-> Len(queries),
                        outcome |-> r.outcome]
            /\ outcome' = [kind |-> r.outcome.kind, exc |-> r.outcome.exc,
                           shape |-> IF r.outcome.kind = "raise" THEN "none" ELSE "single",
                           value |-> r.outcome.response]
            /\ pc' = "done"
            /\ UNCHANGED <<settings, call, data, pending, network, ret, workers>>

CmHandleResponse == CmHandleResponseOn(ReconcileInputs, "any")

NextReconcile == CmHandleResponse

SpecReconcile == InitReconcile /\ [][NextReconcile]_vars

(***************************************************************************)
(* Migration on its own: _gcm_handle_canonical_id applied to any table.    *)
(***************************************************************************)
CanonicalTables == [Devices -> Device]

InitCanonical == pc = "migrate" /\ Idle(CanonicalTables, PayloadSettings)

GcmHandleCanonicalId ==
    /\ pc = "migrate"
    /\ \E canonical_id \in IDs, current_id \in IDs, cloud_type \in CloudTypes :
       \E r \in {gcm_handle_canonical_id([registry |-> registry, queries |-> queries],
                                         canonical_id, current_id, cloud_type)} :
            /\ registry' = r.registry
            /\ queries' = r.queries
            /\ last' = [reconciled |-> TRUE, registration_ids |-> ListIds(<<current_id>>),
                        cloud_type |-> cloud_type,
                        response |-> <<Response(<<Canonical(canonical_id)>>)>>,
                        before |-> registry, origin |-> last.origin, asked |-> Len(queries),
                        outcome |-> [kind |-> "return", exc |-> "", response |-> <<>>]]
            /\ pc' = "done"
            /\ UNCHANGED <<settings, call, data, pending, network, ret, outcome, workers>>

NextCanonical == GcmHandleCanonicalId

SpecCanonical == InitCanonical /\ [][NextCanonical]_vars

(***************************************************************************)
(* Reconciliations one after the other, on any table in which no two       *)
(* active rows share a registration ID and a cloud type.                   *)
(***************************************************************************)
\* no two active rows of the table have the same (registration ID, cloud type)
OneActivePerKey(table) ==
    \A d, e \in DOMAIN table :
        (d # e /\ table[d].active /\ table[e].active) =>
            ~(/\ table[d].registration_id = table[e].registration_id
              /\ table[d].cloud_message_type = table[e].cloud_message_type)

SequenceTables == {t \in [Devices -> Device] : OneActivePerKey(t)}

SequenceResults == {Failed("NotRegistered"), Canonical("A"), Canonical("B"), Canonical("C")}

\* one result per recipient, the counts being those of the results
SequenceInputs ==
    {[registration_ids |-> ListIds(l), results |-> rs] :
        <<l, rs>> \in UNION {[1..k -> Recipients] \X [1..k -> SequenceResults] :
                                k \in 1..MaxResults}}

InitSequence == pc = "reconcile" /\ Idle(SequenceTables, PayloadSettings)

CmHandleResponseSequence == CmHandleResponseOn(SequenceInputs, "own")

\* the next response arrives: _cm_handle_response is called again, on the
\* table the previous call left
CmHandleResponseAgain ==
    /\ pc = "done"
    /\ pc' = "reconcile"
    /\ queries' = <<>>
    /\ last' = NoLast(registry)
    /\ outcome' = NoOutcome
    /\ UNCHANGED <<registry, settings, call, data, pending, network, ret, workers>>

NextSequence == CmHandleResponseSequence \/ CmHandleResponseAgain

SpecSequence == InitSequence /\ [][NextSequence]_vars

(***************************************************************************)
(* Two reconciliations running concurrently on one table.  Every ORM query *)
(* is one atomic step; the loop over the results, which touches no shared  *)
(* state, is part of the step that starts the reconciliation.  The         *)
(* existence check of _gcm_handle_canonical_id and the update that follows *)
(* it are two steps.                                                       *)
(***************************************************************************)
Workers == {"w1", "w2"}

IdleWorker ==
    [pc |-> "idle", registration_ids |-> NoneIds, cloud_type |-> "", response |-> <<>>,
     ids_to_remove |-> <<>>, old_new_ids |-> <<>>, throw_error |-> FALSE, found |-> FALSE]

ConcurrentTables == ReconcileTables

ConcurrentResults == {Failed("NotRegistered"), Canonical("A"), Canonical("C")}

ConcurrentInputs ==
    {[registration_ids |-> ListIds(<<id>>), results |-> <<result>>] :
        <<id, result>> \in Recipients \X ConcurrentResults}

InitConcurrent ==
    /\ pc = "concurrent"
    /\ registry \in ConcurrentTables
    /\ settings \in PayloadSettings
    /\ call = NoCall
    /\ data = EmptyDict
    /\ pending = <<>>
    /\ network = <<>>
    /\ ret = <<>>
    /\ outcome = NoOutcome
    /\ queries = <<>>
    /\ last = NoLast(registry)
    /\ workers = [w \in Workers |-> IdleWorker]

\* where a reconciliation goes after a step: lines 110, 114 and 117
worker_pc(ids_to_remove, old_new_ids, throw_error) ==
    IF ids_to_remove # <<>> THEN "remove"
    ELSE IF old_new_ids # <<>> THEN "exists"
    ELSE IF throw_error THEN "raised"
    ELSE "returned"

\* lines 82-108: the call starts and scans the results
WorkerScan(w) ==
    /\ workers[w].pc = "idle"
    /\ \E cloud_type \in CloudTypes, input \in ConcurrentInputs :
       \E scan \in {scan_results(input.results, input.registration_ids, 1,
                        [ids_to_remove |-> <<>>, old_new_ids |-> <<>>,
                         throw_error |-> FALSE, exc |-> ""])} :
            workers' = [workers EXCEPT ![w] =
                [pc |-> IF ~needs_reconciliation(Response(input.results)) THEN "returned"
                        ELSE IF scan.exc # "" THEN "raised"
                        ELSE worker_pc(scan.ids_to_remove, scan.old_new_ids, scan.throw_error),
                 registration_ids |-> input.registration_ids,
                 cloud_type |-> cloud_type,
                 response |-> <<Response(input.results)>>,
                 ids_to_remove |-> scan.ids_to_remove,
                 old_new_ids |-> scan.old_new_ids,
                 throw_error |-> scan.throw_error,
                 found |-> FALSE]]
    /\ UNCHANGED <<registry, settings, pc, call, data, pending, network, ret, outcome,
                   queries, last>>

\* lines 110-112: the bulk deactivation
WorkerRemove(w) ==
    /\ workers[w].pc = "remove"
    /\ \E db \in {remove_ids([registry |-> registry, queries |-> queries],
                              workers[w].ids_to_remove, workers[w].cloud_type)} :
            /\ registry' = db.registry
            /\ queries' = db.queries
    /\ workers' = [workers EXCEPT ![w].ids_to_remove = <<>>,
                                  ![w].pc = worker_pc(<<>>, workers[w].old_new_ids,
                                                      workers[w].throw_error)]
    /\ UNCHANGED <<settings, pc, call, data, pending, network, ret, outcome, last>>

\* line 171: the existence check of the next migration
WorkerExists(w) ==
    /\ workers[w].pc = "exists"
    /\ queries' = Append(queries, Query("exists", <<Head(workers[w].old_new_ids)[2]>>,
                                        workers[w].cloud_type, ""))
    /\ workers' = [workers EXCEPT
                    ![w].found = exists_active(registry, Head(workers[w].old_new_ids)[2],
                                               workers[w].cloud_type),
                    ![w].pc = "update"]
    /\ UNCHANGED <<registry, settings, pc, call, data, pending, network, ret, outcome, last>>

\* lines 172-175: the update the check chose
WorkerUpdate(w) ==
    /\ workers[w].pc = "update"
    /\ LET old_id == Head(workers[w].old_new_ids)[1]
           new_id == Head(workers[w].old_new_ids)[2]
           cloud_type == workers[w].cloud_type
       IN  IF workers[w].found
           THEN /\ registry' = update_active(registry, {old_id}, cloud_type)
                /\ queries' = Append(queries, Query("update_active", <<old_id>>, cloud_type, ""))
           ELSE /\ registry' = update_registration_id(registry, old_id, cloud_type, new_id)
                /\ queries' = Append(queries, Query("update_registration_id", <<old_id>>,
                                                    cloud_type, new_id))
    /\ workers' = [workers EXCEPT ![w].old_new_ids = Tail(workers[w].old_new_ids),
                                  ![w].pc = worker_pc(<<>>, Tail(workers[w].old_new_ids),
                                                      workers[w].throw_error)]
    /\ UNCHANGED <<settings, pc, call, data, pending, network, ret, outcome, last>>

NextConcurrent ==
    \E w \in Workers : WorkerScan(w) \/ WorkerRemove(w) \/ WorkerExists(w) \/ WorkerUpdate(w)

SpecConcurrent == InitConcurrent /\ [][NextConcurrent]_vars

(***************************************************************************)
(* Chunked bulk sends on tables whose rows may share a cloud type, the     *)
(* credentials being set and the gateway handing out canonical IDs that    *)
(* are recipients as well.                                                 *)
(***************************************************************************)
ChunkSettings == {cfg \in Settings : truthy(cfg.GCM_API_KEY) /\ truthy(cfg.FCM_API_KEY)}

ChunkResults == {Delivered, Failed("NotRegistered"), Canonical("C")}

InitChunks == pc = "idle" /\ Idle(ReconcileTables, ChunkSettings)

SendBulkMessageChunks == SendBulkMessageOn(BulkRecipients, {EmptyDict}, {TRUE}, {EmptyDict})

CmSendRequestChunks == CmSendRequestOn(ChunkResults)

NextChunks == SendBulkMessageChunks \/ CmSendRequestChunks

SpecChunks == InitChunks /\ [][NextChunks]_vars

(***************************************************************************)
(* Properties.                                                             *)
(***************************************************************************)
RECURSIVE Concat(_)
Concat(ss) == IF ss = <<>> THEN <<>> ELSE Head(ss) \o Concat(Tail(ss))

\* the recipient list a payload carries, empty when it has no such field
payload_ids(payload) ==
    IF "registration_ids" \in DOMAIN payload THEN payload.registration_ids ELSE <<>>

SentIds(i) == payload_ids(network[i].request.payload)

ApiKey == IF call.cloud_type = "GCM" THEN settings.GCM_API_KEY ELSE settings.FCM_API_KEY

\* a finished send_bulk_message of more recipients than the cap, no chunk failing
C1_Applies ==
    /\ pc = "done"
    /\ call.fn = "send_bulk_message"
    /\ call.cloud_type \in CloudTypes
    /\ ~call.registration_ids.isNone
    /\ Len(call.registration_ids.ids) > max_recipients(settings, call.cloud_type)
    /\ outcome.kind = "return"

LastIds == last.registration_ids.ids
LastResponse == last.response[1]
LastResults == IF "results" \in DOMAIN LastResponse THEN LastResponse.results ELSE <<>>
LastQueries == SubSeq(queries, last.asked + 1, Len(queries))
LastDb == [registry |-> last.before, queries |-> SubSeq(queries, 1, last.asked)]

\* the response's failure and canonical_ids counts are 0 or absent
ZeroCounts(response) ==
    get_count(response, "failure") = 0 /\ get_count(response, "canonical_ids") = 0

\* _cm_handle_response ran on a response with a non-zero count
Reconciling == last.reconciled /\ ~ZeroCounts(LastResponse)

\* the request had a recipient for every result
Paired == ~last.registration_ids.isNone /\ Len(LastIds) = Len(LastResults)

DeactivationAt(i) == get(LastResults[i], "error") \in DeactivationErrors
MigrationAt(i) == get(LastResults[i], "registration_id") # ""
HardErrorAt(i) ==
    get(LastResults[i], "error") # "" /\ get(LastResults[i], "error") \notin DeactivationErrors

\* the elements of seq at the positions in keep, from position i on, in order
RECURSIVE SelectAt(_, _, _)
SelectAt(seq, keep, i) ==
    IF i > Len(seq) THEN <<>>
    ELSE (IF i \in keep THEN <<seq[i]>> ELSE <<>>) \o SelectAt(seq, keep, i + 1)

\* the recipients whose results ask for deactivation, by position
ExpectedRemovals == SelectAt(LastIds, {i \in DOMAIN LastResults : DeactivationAt(i)}, 1)

\* the (old ID, new ID) pairs of the results that carry a canonical ID, by position
ExpectedMigrations ==
    SelectAt([i \in DOMAIN LastResults |->
                <<LastIds[i], get(LastResults[i], "registration_id")>>],
             {i \in DOMAIN LastResults : MigrationAt(i)}, 1)

\* the bulk deactivations the reconciliation issued
IssuedRemovals == SelectAt(LastQueries, {j \in DOMAIN LastQueries :
                                            LastQueries[j].op = "update_active_in"}, 1)

\* the (old ID, new ID) pairs of the migrations the reconciliation performed:
\* each is an existence check of the new ID followed by an update of the old
IssuedMigrations ==
    SelectAt([j \in DOMAIN LastQueries |->
                IF LastQueries[j].op = "exists" /\ j < Len(LastQueries)
                THEN <<LastQueries[j + 1].ids[1], LastQueries[j].ids[1]>>
                ELSE <<"", "">>],
             {j \in DOMAIN LastQueries : LastQueries[j].op = "exists"}, 1)

\* every query the reconciliation issued is a bulk deactivation or part of a migration
RegistryCallsAsExpected ==
    /\ IssuedRemovals = IF ExpectedRemovals = <<>> THEN <<>>
                        ELSE <<Query("update_active_in", ExpectedRemovals, last.cloud_type, "")>>
    /\ IssuedMigrations = ExpectedMigrations
    /\ Len(LastQueries) = Len(IssuedRemovals) + 2 * Len(IssuedMigrations)

Distinct(seq) == \A i, j \in DOMAIN seq : i # j => seq[i] # seq[j]

\* C2: when the response has a non-zero failure or canonical_ids count, results
\* are paired with recipients by position: registration_ids[i] goes into the
\* bulk deactivation exactly for the positions i whose error is NotRegistered
\* or InvalidRegistration, and registration_ids[i] is migrated to
\* results[i].registration_id exactly for the positions i that carry one; when
\* the recipients are pairwise distinct, the rows of a recipient whose result
\* has neither are as they were.
C2_PositionalPairing ==
    (Reconciling /\ Paired) =>
        /\ RegistryCallsAsExpected
        /\ Distinct(LastIds) =>
            \A i \in DOMAIN LastResults :
                (~DeactivationAt(i) /\ ~MigrationAt(i)) =>
                    \A d \in Devices :
                        last.before[d].registration_id = LastIds[i] =>
                            registry[d] = last.before[d]

\* recipients A and B, A delivered, B both unregistered and given the canonical
\* ID C: row A is untouched, row B is deactivated and renamed
C2_Witness ==
    /\ Reconciling
    /\ LastIds = <<"A", "B">>
    /\ LastResults = <<Delivered, FailedCanonical("NotRegistered", "C")>>
    /\ \A d \in {1, 2} : last.before[d].cloud_message_type = last.cloud_type
                         /\ last.before[d].active
    /\ registry[1] = last.before[1]
    /\ registry[2] = [registration_id |-> "C", cloud_message_type |-> last.cloud_type,
                      active |-> FALSE]

\* the arguments of the latest stand-alone migration
MigratedNew == LastResults[1].registration_id
MigratedOld == LastIds[1]

Keyed(row, id, cloud_type) == row.registration_id = id /\ row.cloud_message_type = cloud_type

\* C3: _gcm_handle_canonical_id(newID, oldID, cloudType): if an active row
\* with registration ID newID and that cloud type exists at the call, the rows
\* keyed (oldID, cloudType) become inactive and keep their registration ID;
\* otherwise those rows get registration ID newID and keep their active flag;
\* exactly one of the two is applied, and no other row changes.
C3_CanonicalMigration ==
    (pc = "done" /\ last.reconciled) =>
        LET taken == \E d \in Devices :
                        /\ Keyed(last.before[d], MigratedNew, last.cloud_type)
                        /\ last.before[d].active
        IN  /\ \A d \in Devices :
                registry[d] =
                    IF ~Keyed(last.before[d], MigratedOld, last.cloud_type) THEN last.before[d]
                    ELSE IF taken THEN [last.before[d] EXCEPT !.active = FALSE]
                    ELSE [last.before[d] EXCEPT !.registration_id = MigratedNew]
            /\ LastQueries =
                <<Query("exists", <<MigratedNew>>, last.cloud_type, ""),
                  IF taken
                  THEN Query("update_active", <<MigratedOld>>, last.cloud_type, "")
                  ELSE Query("update_registration_id", <<MigratedOld>>, last.cloud_type,
                             MigratedNew)>>

\* B is migrated to A while an inactive row A exists: the active row B is
\* renamed, not deactivated
C3_Witness ==
    /\ pc = "done"
    /\ last.reconciled
    /\ MigratedOld = "B"
    /\ MigratedNew = "A"
    /\ last.before[1] = [registration_id |-> "A", cloud_message_type |-> last.cloud_type,
                         active |-> FALSE]
    /\ last.before[2] = [registration_id |-> "B", cloud_message_type |-> last.cloud_type,
                         active |-> TRUE]
    /\ registry[2] = [registration_id |-> "A", cloud_message_type |-> last.cloud_type,
                      active |-> TRUE]

\* C4: when the response's failure and canonical_ids counts are 0 or absent,
\* _cm_handle_response issues no query, leaves the table as it was, raises
\* nothing and returns the response unchanged, whatever the results hold.
C4_NoOpFastPath ==
    (last.reconciled /\ ZeroCounts(LastResponse)) =>
        /\ registry = last.before
        /\ Len(queries) = last.asked
        /\ last.outcome = Returned(LastResponse)

\* counts of 0 on results that would deactivate A and migrate B, both rows
\* being active rows of the cloud type
C4_Witness ==
    /\ last.reconciled
    /\ "failure" \in DOMAIN LastResponse
    /\ ZeroCounts(LastResponse)
    /\ LastIds = <<"A", "B">>
    /\ LastResults = <<Failed("NotRegistered"), Canonical("C")>>
    /\ \A d \in {1, 2} : last.before[d].cloud_message_type = last.cloud_type
                         /\ last.before[d].active
    /\ registry = last.before

\* the response without its error codes other than the two deactivation codes
Softened(response) ==
    [response EXCEPT !.results =
        [i \in DOMAIN response.results |->
            IF HardErrorAt(i) THEN pop(response.results[i], "error") ELSE response.results[i]]]

\* a response with a hard error next to results that deactivate or migrate
C7_Applies ==
    /\ Reconciling
    /\ \E i \in DOMAIN LastResults : HardErrorAt(i)
    /\ \E j \in DOMAIN LastResults : DeactivationAt(j) \/ MigrationAt(j)

\* C7: when a response holds an error code other than NotRegistered and
\* InvalidRegistration together with results that ask for deactivation or
\* migration, GCMError is raised with the full response, after every
\* deactivation and migration of the response has been issued; the table is
\* then the one the same response without the hard errors leaves, and the
\* rows marked for deactivation are inactive.
C7_PartialFailure ==
    C7_Applies =>
        /\ last.outcome = Raised("GCMError", <<LastResponse>>)
        /\ RegistryCallsAsExpected
        /\ registry = cm_handle_response(LastDb, last.registration_ids,
                                         Softened(LastResponse), last.cloud_type).registry
        /\ \A j \in DOMAIN LastResults :
            DeactivationAt(j) =>
                \A d \in Devices :
                    Keyed(last.before[d], LastIds[j], last.cloud_type) => ~registry[d].active

\* the hard error comes first, the deactivation of B after it, and B's active
\* row is inactive when GCMError is raised
C7_Witness ==
    /\ C7_Applies
    /\ LastIds = <<"A", "B">>
    /\ LastResults = <<Failed("Unavailable"), Failed("NotRegistered")>>
    /\ last.before[2] = [registration_id |-> "B", cloud_message_type |-> last.cloud_type,
                         active |-> TRUE]
    /\ ~registry[2].active
    /\ last.outcome.exc = "GCMError"

\* C8: _cm_handle_response raises GCMError if and only if a count is non-zero
\* and some result has an error code other than NotRegistered and
\* InvalidRegistration; a response whose results hold only deliveries, those
\* two codes and canonical IDs raises nothing and is returned.
C8_RaisesIffHardError ==
    last.reconciled =>
        /\ last.outcome.exc = "GCMError" <=>
                (Reconciling /\ \E i \in DOMAIN LastResults : HardErrorAt(i))
        /\ (\A i \in DOMAIN LastResults : ~HardErrorAt(i)) =>
                last.outcome = Returned(LastResponse)

\* C10: when the request had no recipient list and the response has a
\* non-zero count and results, _cm_handle_response skips the pairing: it
\* raises no TypeError or IndexError and issues no query.
C10_GuardedPairing ==
    (Reconciling /\ ~truthy_ids(last.registration_ids) /\ LastResults # <<>>) =>
        /\ last.outcome.exc \notin {"TypeError", "IndexError"}
        /\ registry = last.before
        /\ Len(queries) = last.asked

RaisedImproperlyConfigured ==
    outcome = [kind |-> "raise", exc |-> "ImproperlyConfigured", shape |-> "none",
               value |-> <<>>]

ReturnedNone == outcome = [kind |-> "return", exc |-> "", shape |-> "none", value |-> <<>>]

\* send_bulk_message was called with registration_ids = None and a known cloud type
C5_Applies ==
    /\ call.fn = "send_bulk_message"
    /\ call.registration_ids.isNone
    /\ call.cloud_type \in CloudTypes

\* without a topic in "to", the call is over at once: None is returned, no
\* request was built or sent, no query was issued
C5_ShortCircuit ==
    /\ pc = "done"
    /\ ReturnedNone
    /\ network = <<>>
    /\ queries = <<>>
    /\ data = call.data
    /\ last = NoLast(registry)

C5_OneRequestWithoutIds ==
    /\ Len(network) = 1
    /\ "registration_ids" \notin DOMAIN network[1].request.payload

\* C5, as claimed: send_bulk_message(None, ...) with a known cloud type and a
\* "to" option that is absent or has no "/topics/" returns None without
\* building a payload, without a network call and without registry access;
\* with a "to" option that names a topic, exactly one request is sent and it
\* carries no registration_ids field.
C5_NullAddressing ==
    C5_Applies =>
        IF ~contains_topics(get(call.kwargs, "to"))
        THEN C5_ShortCircuit
        ELSE pc = "done" => C5_OneRequestWithoutIds

\* C5, amended: as C5_NullAddressing, but the one request of the topic case is
\* sent only when the API key of the cloud type is set; when it is missing,
\* ImproperlyConfigured is raised and nothing is sent.
C5_NullAddressingKeyed ==
    C5_Applies =>
        IF ~contains_topics(get(call.kwargs, "to"))
        THEN C5_ShortCircuit
        ELSE pc = "done" =>
                IF truthy(ApiKey)
                THEN C5_OneRequestWithoutIds
                ELSE network = <<>> /\ RaisedImproperlyConfigured

\* a finished send to a topic with registration_ids = None and the key set
C5_Witness ==
    /\ C5_Applies
    /\ call.kwargs = [to |-> "/topics/news"]
    /\ pc = "done"
    /\ truthy(ApiKey)
    /\ C5_OneRequestWithoutIds
    /\ network[1].request.payload.to = "/topics/news"
    /\ outcome.kind = "return"

\* the payload of the request a finished single send made
SentPayload == network[1].request.payload

NotificationOf(payload) ==
    IF "notification" \in DOMAIN payload THEN payload.notification ELSE EmptyDict

\* a finished FCM send with the split-notification flag, whose request went out
C6_Applies ==
    /\ pc = "done"
    /\ call.cloud_type = "FCM"
    /\ call.use_fcm_notifications
    /\ Len(network) = 1

\* C6, as claimed: for every notification-display field, when data and the
\* options both hold a truthy value for it, payload.notification holds the
\* value from data; the value from the options is there only when data lacks
\* the field.
C6_DataPrecedence ==
    C6_Applies =>
        \A key \in Range(FCM_NOTIFICATIONS_PAYLOAD_KEYS) :
            /\ (truthy(get(call.data, key)) /\ truthy(get(call.kwargs, key))) =>
                    get(NotificationOf(SentPayload), key) = call.data[key]
            /\ (truthy(get(call.kwargs, key))
                /\ get(NotificationOf(SentPayload), key) = call.kwargs[key]) =>
                    key \notin DOMAIN call.data

\* C6, amended: for every notification-display field, when data and the
\* options both hold a truthy value for it, payload.notification holds the
\* value from the options; the value from data is there only when the options
\* lack the field or hold a falsy value for it.
C6_OptionsPrecedence ==
    C6_Applies =>
        \A key \in Range(FCM_NOTIFICATIONS_PAYLOAD_KEYS) :
            /\ (truthy(get(call.data, key)) /\ truthy(get(call.kwargs, key))) =>
                    get(NotificationOf(SentPayload), key) = call.kwargs[key]
            /\ (truthy(get(call.data, key))
                /\ get(NotificationOf(SentPayload), key) = call.data[key]) =>
                    ~truthy(get(call.kwargs, key))

\* title is truthy in data and in the options, and the options' value is sent
C6_Witness ==
    /\ C6_Applies
    /\ get(call.data, "title") = "d"
    /\ get(call.kwargs, "title") = "k"
    /\ NotificationOf(SentPayload).title = "k"

\* the call ends before any request: send_message of a falsy ID, or
\* send_bulk_message of None without a topic
NothingToSend ==
    call.registration_ids.isNone
    /\ (call.fn = "send_message" \/ ~contains_topics(get(call.kwargs, "to")))

\* C9: when the API key of the call's cloud type is missing or empty, nothing
\* goes out on the network and no query is issued, and a call that has
\* something to send, bulk or single, ends with ImproperlyConfigured at its
\* first request, all its chunks unsent.
C9_MissingCredential ==
    (call.fn # "" /\ call.cloud_type \in CloudTypes /\ ~truthy(ApiKey)) =>
        /\ network = <<>>
        /\ queries = <<>>
        /\ registry = last.before
        /\ ret = <<>>
        /\ (pc = "done" /\ ~NothingToSend) => RaisedImproperlyConfigured

\* a chunked bulk send that ended with ImproperlyConfigured, no key being set
C9_Witness ==
    /\ call.fn = "send_bulk_message"
    /\ call.cloud_type = "GCM"
    /\ ~truthy(ApiKey)
    /\ call.shape = "list"
    /\ Len(pending) >= 2
    /\ pc = "done"
    /\ RaisedImproperlyConfigured

\* the addressing mechanisms a payload populates: the registration-ID list,
\* the condition, the topic key ("to" or "notification_key")
AddressingMechanisms(payload) ==
    {m \in {"registration_ids", "condition", "topic key"} :
        \/ m = "registration_ids" /\ "registration_ids" \in DOMAIN payload
        \/ m = "condition" /\ "condition" \in DOMAIN payload
        \/ m = "topic key" /\ (DOMAIN payload) \cap {"to", "notification_key"} # {}}

\* C11: every payload _cm_send_request builds and sends, whatever the recipient
\* list and the options, populates at most one of the addressing mechanisms
\* registration_ids, condition, topic key.
C11_SingleAddressing ==
    \A i \in DOMAIN network :
        Cardinality(AddressingMechanisms(network[i].request.payload)) <= 1

\* C12: starting from a table in which no two active rows share a
\* (registration ID, cloud type), after any sequence of reconciliations run
\* one at a time (bulk deactivations and migrations, in any order, with any
\* responses) no two active rows share a (registration ID, cloud type).
C12_OneActiveSequential == OneActivePerKey(registry)

\* A is migrated to C while an inactive row C exists: the row is renamed and
\* the key (C, cloud type) has two rows, one of them active
C12_Witness ==
    /\ pc = "done"
    /\ last.reconciled
    /\ LastIds = <<"A">>
    /\ LastResults = <<Canonical("C")>>
    /\ last.before[1] = [registration_id |-> "A", cloud_message_type |-> last.cloud_type,
                         active |-> TRUE]
    /\ last.before[2] = [registration_id |-> "C", cloud_message_type |-> last.cloud_type,
                         active |-> FALSE]
    /\ registry[1] = [registration_id |-> "C", cloud_message_type |-> last.cloud_type,
                      active |-> TRUE]
    /\ registry[2] = last.before[2]

\* C13: when two reconciliations run concurrently, every query and every
\* update being atomic and the existence check of a migration a step of its
\* own before the update, no reachable table has two active rows with the same
\* (registration ID, cloud type), none having them at the start.
C13_OneActiveConcurrent == OneActivePerKey(registry)

\* a finished bulk send of exactly two chunks, both answered by the gateway
C14_Applies ==
    /\ pc = "done"
    /\ call.fn = "send_bulk_message"
    /\ call.shape = "list"
    /\ outcome.kind = "return"
    /\ Len(network) = 2

\* the response of the i-th request sent
ChunkResponse(i) == network[i].reply.body[1]

\* the table after the registry updates of chunk i are applied to table
AfterChunk(table, i) ==
    cm_handle_response([registry |-> table, queries |-> <<>>], ListIds(SentIds(i)),
                       ChunkResponse(i), call.cloud_type).registry

\* the IDs chunk i deactivates, migrates from and migrates to
ChunkRemoved(i) ==
    {SentIds(i)[j] : j \in {j \in DOMAIN ChunkResponse(i).results :
        get(ChunkResponse(i).results[j], "error") \in DeactivationErrors}}
ChunkMigratedFrom(i) ==
    {SentIds(i)[j] : j \in {j \in DOMAIN ChunkResponse(i).results :
        get(ChunkResponse(i).results[j], "registration_id") # ""}}
ChunkMigratedTo(i) ==
    {get(ChunkResponse(i).results[j], "registration_id") :
        j \in {j \in DOMAIN ChunkResponse(i).results :
            get(ChunkResponse(i).results[j], "registration_id") # ""}}

\* an ID chunk i migrates from or to is deactivated, migrated from or migrated
\* to by chunk k
Interferes(i, k) ==
    (ChunkMigratedFrom(i) \cup ChunkMigratedTo(i))
        \cap (ChunkRemoved(k) \cup ChunkMigratedFrom(k) \cup ChunkMigratedTo(k)) # {}

\* C14, as claimed: for any table and any two chunks of one bulk call with
\* their responses, the registry updates of chunk 1 then chunk 2 leave the
\* table that those of chunk 2 then chunk 1 leave.
C14_ChunkCommutativity ==
    C14_Applies => registry = AfterChunk(AfterChunk(last.origin, 2), 1)

\* C14, amended: the two orders leave the same table whenever no ID that one
\* chunk migrates from or to is an ID the other chunk deactivates, migrates
\* from or migrates to.
C14_CommutesUnlessInterfering ==
    (C14_Applies /\ ~Interferes(1, 2) /\ ~Interferes(2, 1)) =>
        registry = AfterChunk(AfterChunk(last.origin, 2), 1)

\* chunk 1 deactivates A and chunk 2 migrates B to C, both active rows of the
\* cloud type: the chunks do not interfere and both rows changed
C14_Witness ==
    /\ C14_Applies
    /\ SentIds(1) = <<"A">>
    /\ SentIds(2) = <<"B">>
    /\ ChunkResponse(1).results = <<Failed("NotRegistered")>>
    /\ ChunkResponse(2).results = <<Canonical("C")>>
    /\ \A d \in {1, 2} : last.origin[d].cloud_message_type = call.cloud_type
                         /\ last.origin[d].active
    /\ ~registry[1].active
    /\ registry[2].registration_id = "C"
    /\ registry = AfterChunk(AfterChunk(last.origin, 2), 1)

\* every (registration ID, cloud type) identifies at most one row of the table
UniqueKeys(table) ==
    \A d, e \in DOMAIN table :
        d # e => ~(/\ table[d].registration_id = table[e].registration_id
                   /\ table[d].cloud_message_type = table[e].cloud_message_type)

\* C15: starting from a table in which every (registration ID, cloud type)
\* identifies at most one row, active or not, every such pair still identifies
\* at most one row after reconciliation; a rename oldID -> newID never makes a
\* second row carry newID when an inactive row with newID exists.
C15_KeyUniqueness == UniqueKeys(last.origin) => UniqueKeys(registry)

\* the latest request went out and its network call failed
TransportFailed == network # <<>> /\ ~network[Len(network)].reply.ok

\* C16: when the network call of a chunk fails, the failure propagates to the
\* caller as it is, _cm_handle_response is not called for the chunk, and the
\* registry is neither read nor written for it: the table is the one just
\* before the chunk's request; the call sends nothing after it.
C16_TransportFailureIsolation ==
    TransportFailed =>
        /\ pc = "done"
        /\ outcome = [kind |-> "raise", exc |-> "URLError", shape |-> "none", value |-> <<>>]
        /\ ~last.reconciled
        /\ last.registration_ids = ListIds(SentIds(Len(network)))
                \/ (SentIds(Len(network)) = <<>> /\ ~truthy_ids(last.registration_ids))
        /\ registry = last.before
        /\ Len(queries) = last.asked
        /\ \A i \in 1..(Len(network) - 1) : network[i].reply.ok

\* the second chunk's network call fails after the first chunk's response
\* changed the table: the table is the one the first chunk left
C16_Witness ==
    /\ TransportFailed
    /\ Len(network) = 2
    /\ last.before # last.origin
    /\ registry = last.before
    /\ queries # <<>>
    /\ outcome.exc = "URLError"

\* C17: a reconciliation for cloud type T reads and changes only rows of cloud
\* type T: every query it issues is filtered by T, every row of the other
\* cloud type keeps its registration ID and its active flag, also when its ID
\* is that of a deactivated or migrated recipient or a canonical ID; and an
\* active row of the other cloud type that carries newID does not count as
\* "already active": without an active row (newID, T) at the check, the rows
\* (oldID, T) are renamed, not deactivated.
C17_CloudTypeScoping ==
    (Reconciling /\ Paired) =>
        /\ \A j \in DOMAIN LastQueries : LastQueries[j].cloud_type = last.cloud_type
        /\ \A d \in Devices :
                last.before[d].cloud_message_type # last.cloud_type =>
                    registry[d] = last.before[d]
        /\ \A d \in Devices : registry[d].cloud_message_type = last.before[d].cloud_message_type
        /\ (Len(LastResults) = 1 /\ MigrationAt(1)
            /\ ~\E d \in Devices :
                    /\ Keyed(last.before[d], LastResults[1].registration_id, last.cloud_type)
                    /\ last.before[d].active) =>
                \A d \in Devices :
                    Keyed(last.before[d], LastIds[1], last.cloud_type) =>
                        registry[d] = [last.before[d] EXCEPT
                                        !.registration_id = LastResults[1].registration_id,
                                        !.active = last.before[d].active
                                                   /\ ~DeactivationAt(1)]

\* A is migrated to B for cloud type T while the only row B is an active row
\* of the other cloud type: row A is renamed and row B is as it was
C17_Witness ==
    /\ Reconciling
    /\ LastIds = <<"A">>
    /\ LastResults = <<Canonical("B")>>
    /\ last.before[1] = [registration_id |-> "A", cloud_message_type |-> last.cloud_type,
                         active |-> TRUE]
    /\ last.before[2].registration_id = "B"
    /\ last.before[2].cloud_message_type # last.cloud_type
    /\ last.before[2].active
    /\ registry[1] = [registration_id |-> "B", cloud_message_type |-> last.cloud_type,
                      active |-> TRUE]
    /\ registry[2] = last.before[2]

\* a payload without its recipient list
WithoutIds(payload) == pop(payload, "registration_ids")

\* C18: in a bulk send split into chunks, for FCM with the split-notification
\* flag as for GCM, every chunk's payload carries the notification, the data
\* and the options of the first chunk's payload, the payloads differing in
\* registration_ids only; building a payload leaves the caller's data dict,
\* which the next chunk reuses, as it was.
C18_ChunkPayloadsAgree ==
    (call.fn = "send_bulk_message" /\ call.shape = "list") =>
        /\ \A i \in DOMAIN network :
                WithoutIds(network[i].request.payload) = WithoutIds(network[1].request.payload)
        /\ network # <<>> => data = call.data

\* the i-th request's network call failed
TransportFailedAt(i) == ~network[i].reply.ok

\* the i-th request was answered with a response that carries a non-zero
\* count and an error code other than NotRegistered and InvalidRegistration
GatewayErrorAt(i) ==
    /\ network[i].reply.ok
    /\ ~ZeroCounts(ChunkResponse(i))
    /\ \E j \in DOMAIN ChunkResponse(i).results :
            /\ get(ChunkResponse(i).results[j], "error") # ""
            /\ get(ChunkResponse(i).results[j], "error") \notin DeactivationErrors

\* the table after the registry updates of the first n chunks, in send order
RECURSIVE AfterChunks(_, _)
AfterChunks(table, n) ==
    IF n = 0 THEN table ELSE AfterChunk(AfterChunks(table, n - 1), n)

\* the call ended with the exception exc, handing back no per-chunk response
Aborted(exc) ==
    /\ pc = "done"
    /\ outcome.kind = "raise"
    /\ outcome.exc = exc
    /\ outcome.shape = "none"

\* C19: in a bulk send of several chunks, when chunk k ends in GCMError, in a
\* transport error or in a configuration error, no request is sent for a chunk
\* after k and the call returns no per-chunk responses, the error propagating;
\* the registry updates of chunks 1..k-1, and those of chunk k when it ended in
\* GCMError, stay applied.
C19_AbortOnFirstFailure ==
    (call.fn = "send_bulk_message" /\ call.shape = "list") =>
        /\ \A k \in DOMAIN network :
            /\ TransportFailedAt(k) =>
                /\ k = Len(network)
                /\ Aborted("URLError")
                /\ registry = AfterChunks(last.origin, k - 1)
            /\ GatewayErrorAt(k) =>
                /\ k = Len(network)
                /\ Aborted("GCMError")
                /\ outcome.value = <<ChunkResponse(k)>>
                /\ registry = AfterChunks(last.origin, k)
                /\ \A j \in DOMAIN ChunkResponse(k).results :
                    get(ChunkResponse(k).results[j], "error") \in DeactivationErrors =>
                        \A d \in Devices :
                            Keyed(last.before[d], SentIds(k)[j], call.cloud_type) =>
                                ~registry[d].active
            /\ (k = Len(network) /\ (TransportFailedAt(k) \/ GatewayErrorAt(k))) =>
                /\ Len(ret) = k - 1
                /\ Len(pending) = Len(chunks(call.registration_ids.ids,
                                             max_recipients(settings, call.cloud_type))) - k + 1
                /\ SentIds(k) = Head(pending).ids
        /\ (~truthy(ApiKey) /\ pc = "done") =>
            /\ Aborted("ImproperlyConfigured")
            /\ network = <<>>
            /\ registry = last.origin
            /\ Len(pending) = Len(chunks(call.registration_ids.ids,
                                         max_recipients(settings, call.cloud_type)))

\* three chunks: the first one's response changed the table, the second ended
\* in GCMError, the third was never sent, and the first one's change is there
C19_Witness ==
    /\ call.fn = "send_bulk_message"
    /\ call.shape = "list"
    /\ Len(network) = 2
    /\ GatewayErrorAt(2)
    /\ Aborted("GCMError")
    /\ Len(pending) = 2
    /\ last.before # last.origin
    /\ registry = last.before

\* C20: after _gcm_handle_canonical_id(newID, oldID, cloudType) on a table that
\* holds an active row keyed (oldID, cloudType), at least one active row with
\* registration ID newID and that cloud type exists, for every newID, newID
\* equal to oldID included.
C20_TargetReachable ==
    (/\ pc = "done"
     /\ last.reconciled
     /\ \E d \in Devices : Keyed(last.before[d], MigratedOld, last.cloud_type)
                           /\ last.before[d].active) =>
        \E d \in Devices : Keyed(registry[d], MigratedNew, last.cloud_type) /\ registry[d].active

====
